---- MODULE Spec2Model ----
(***************************************************************************)
(* recurrent_tasks: model of src/recurrent_tasks/__main__.py.              *)
(*                                                                         *)
(* Three specifications share this module:                                 *)
(*   Spec      the sync engine, create_cards, run repeatedly against a     *)
(*             remote card store (one step per HTTP request);              *)
(*   SpecEval  the rule engine, get_cards, applied to bounded rule lists   *)
(*             and evaluation dates;                                       *)
(*   SpecMain  main: the rules file's records are loaded, evaluated for    *)
(*             today and synchronized once.                                *)
(*                                                                         *)
(* Python's Optional values are modelled as sets: None is {} and a value v *)
(* is {v}.                                                                 *)
(***************************************************************************)
EXTENDS Integers, Sequences, FiniteSets, TLC

VARIABLES
    remote,             \* the tracker: list id -> card name -> number of cards
    cards,              \* create_cards' argument `cards`
    pc,                 \* "idle" | "get" (loop of line 77) | "post" (loop of line 86)
    current_card_names, \* the dict of line 76: fetched list id -> names found
    i,                  \* number of cards the loop of line 86 has gone through
    requests,           \* the HTTP requests of the current run, in order
    results,            \* how each finished run ended
    remoteAtStart,      \* the tracker's state when the current run started
    prevCreated,        \* the <<list id, name>> of the cards the run before the current one created
    prevI,              \* the value of i when the run before the current one ended
    rules,              \* get_cards' argument `rules`
    evaluation_date,    \* get_cards' argument `evaluation_date`
    due_time,           \* get_cards' keyword argument `due_time`, None when left out
    evalCards,          \* get_cards' return value
    evalDone,           \* get_cards has returned
    records,            \* main: the list json.load gave for the rules file
    mainPc,             \* main: "off" | "load" | "evaluate" | "sync" | "failed"
    mainError           \* main: the exception that ended main outside create_cards

syncVars == <<remote, cards, pc, current_card_names, i, requests, results, remoteAtStart,
              prevCreated, prevI>>
evalVars == <<rules, evaluation_date, due_time, evalCards, evalDone>>
mainVars == <<records, mainPc, mainError>>
vars == <<remote, cards, pc, current_card_names, i, requests, results, remoteAtStart,
          prevCreated, prevI,
          rules, evaluation_date, due_time, evalCards, evalDone,
          records, mainPc, mainError>>

----------------------------------------------------------------------------
(* Bounds *)

MaxCards == 2
MaxRuns == 2
MaxRules == 2
MaxInitialCopies == 1

----------------------------------------------------------------------------
(* Values *)

None == {}
Some(v) == {v}
Value(opt) == CHOOSE v \in opt : TRUE

\* Card names and list ids are both Python strings: "L1" is in both sets.
Names == {"X", "L1"}
ListIds == {"L1", "L2"}

HTTP_OK == 200
\* A response: None when requests raised (timeout), else its status_code.
Responses == {None, Some(HTTP_OK), Some(500)}

RECURSIVE SeqsUpTo(_, _)
SeqsUpTo(S, n) ==
    IF n = 0 THEN {<<>>}
    ELSE LET shorter == SeqsUpTo(S, n - 1)
         IN shorter \cup {Append(s, x) : s \in {t \in shorter : Len(t) = n - 1}, x \in S}

----------------------------------------------------------------------------
(* Dates and times, as Python's datetime module computes them *)

Date(y, m, d) == [year |-> y, month |-> m, day |-> d]
Time(h, mi, s) == [hour |-> h, minute |-> mi, second |-> s]

IsLeap(y) == y % 4 = 0 /\ (y % 100 # 0 \/ y % 400 = 0)

DaysInMonth(y, m) ==
    IF m = 2 THEN (IF IsLeap(y) THEN 29 ELSE 28)
    ELSE IF m \in {4, 6, 9, 11} THEN 30 ELSE 31

DaysBeforeYear(y) ==
    LET p == y - 1 IN p * 365 + (p \div 4) - (p \div 100) + (p \div 400)

RECURSIVE DaysBeforeMonth(_, _)
DaysBeforeMonth(y, m) ==
    IF m = 1 THEN 0 ELSE DaysBeforeMonth(y, m - 1) + DaysInMonth(y, m - 1)

\* date.toordinal()
ToOrdinal(d) == DaysBeforeYear(d.year) + DaysBeforeMonth(d.year, d.month) + d.day

\* date.isoweekday() in the place of date.weekday(): 1 = Monday .. 7 = Sunday
IsoWeekday(d) == ((ToOrdinal(d) + 6) % 7) + 1

\* date.weekday(): 0 = Monday .. 6 = Sunday
Weekday(d) == (ToOrdinal(d) + 6) % 7

\* The years date arithmetic can land in.
CalendarYears == 2022..2025

\* date.fromordinal(n)
FromOrdinal(n) ==
    LET y == CHOOSE yy \in CalendarYears :
                 DaysBeforeYear(yy) < n /\ n <= DaysBeforeYear(yy + 1)
        inYear == n - DaysBeforeYear(y)
        m == CHOOSE mm \in 1..12 :
                 /\ DaysBeforeMonth(y, mm) < inYear
                 /\ inYear <= DaysBeforeMonth(y, mm) + DaysInMonth(y, mm)
    IN Date(y, m, inYear - DaysBeforeMonth(y, m))

\* evaluation_date + timedelta(days = n)
AddDays(d, n) == FromOrdinal(ToOrdinal(d) + n)

\* datetime.combine(d, t): a naive datetime
Combine(d, t) ==
    [year |-> d.year, month |-> d.month, day |-> d.day,
     hour |-> t.hour, minute |-> t.minute, second |-> t.second]

\* dt.astimezone(timezone.utc).isoformat() for a naive dt, the process's
\* local zone being `offset` hours ahead of UTC.
UtcIsoformat(dt, offset) ==
    LET hours == ToOrdinal(Date(dt.year, dt.month, dt.day)) * 24 + dt.hour - offset
        d == FromOrdinal(hours \div 24)
    IN <<d.year, d.month, d.day, hours % 24, dt.minute, dt.second, "+00:00">>

\* The local zones a run may execute in, in hours ahead of UTC.
UtcOffsets == {0, 10}

----------------------------------------------------------------------------
(* Records *)

Card(name, list_id, due) == [name |-> name, list_id |-> list_id, due |-> due]

\* Line 39: the default of get_cards' due_time.
DefaultDueTime == Time(9, 0, 0)

\* The due_time get_cards works with, given the keyword argument as passed.
DueTimeOf(arg) == IF arg = None THEN DefaultDueTime ELSE Value(arg)

\* The due values the candidates of the sync engine carry.
SampleDue == Combine(Date(2024, 1, 1), DefaultDueTime)
Dues == {None, Some(SampleDue)}
CardValues == {Card(n, l, d) : n \in Names, l \in ListIds, d \in Dues}

\* How a finished run ended: raised is "none" when create_cards returned.
Returned == [raised |-> "none", text |-> "", list_id |-> None, card |-> None]
RuntimeError(text, list_id, card) ==
    [raised |-> "RuntimeError", text |-> text, list_id |-> list_id, card |-> card]
\* requests raises its own exception when a call times out
RequestsTimeout == [raised |-> "Timeout", text |-> "", list_id |-> None, card |-> None]

GetRequest(list_id, response) ==
    [method |-> "GET", list_id |-> list_id, name |-> None, due |-> None,
     response |-> response]
PostRequest(query, response) ==
    [method |-> "POST", list_id |-> query.idList, name |-> Some(query.name),
     due |-> query.due, response |-> response]

----------------------------------------------------------------------------
(* The sync engine: create_cards *)

NoNames == [l \in {} |-> [n \in Names |-> 0]]

\* set(card.list_id for card in cards)
ListIdsOf(cs) == {cs[k].list_id : k \in 1..Len(cs)}

\* Line 77 as `for card in cards`: lists already fetched are fetched again.
UnreadPerCard(cs, fetched) == ListIdsOf(cs)

\* Line 77: the list ids the loop over the set has still to go through.
Unread(cs, fetched) == ListIdsOf(cs) \ DOMAIN fetched

\* Line 81 left out: no response to the read makes the run raise.
GetFailedIgnored(status_code) == FALSE

\* Line 81: the response to the read makes the run raise RuntimeError.
GetFailed(status_code) == status_code # HTTP_OK

\* Line 98 left out: no response to the creation makes the run raise.
PostFailedIgnored(status_code) == FALSE

\* Line 98: the response to the creation makes the run raise RuntimeError.
PostFailed(status_code) == status_code # HTTP_OK

\* Line 87: `card.name in current_card_names`, membership in the dict's keys.
AlreadyExists(card, fetched) == card.name \in DOMAIN fetched

\* Lines 95-96 left out: the query never carries a due value.
QueryWithoutDue(card, offset) ==
    [idList |-> card.list_id, name |-> card.name, due |-> None]

\* Lines 89-96: the query of the creation request.
Query(card, offset) ==
    [idList |-> card.list_id,
     name |-> card.name,
     due |-> IF card.due # None THEN Some(UtcIsoformat(Value(card.due), offset)) ELSE None]

\* The creation as a replacement: the list holds the new card alone.
WithCardReplacing(r, list_id, name) ==
    [r EXCEPT ![list_id] = [n \in Names |-> IF n = name THEN 1 ELSE 0]]

\* The tracker after it has created one card `name` in `list_id`.
WithCard(r, list_id, name) ==
    [r EXCEPT ![list_id] = [@ EXCEPT ![name] = @ + 1]]

\* The requests of a run, by kind, and the cards the tracker reported created.
Gets(log) == {k \in DOMAIN log : log[k].method = "GET"}
Posts(log) == {k \in DOMAIN log : log[k].method = "POST"}
Created(log) ==
    {<<log[k].list_id, Value(log[k].name)>> :
        k \in {j \in Posts(log) : log[j].response = Some(HTTP_OK)}}

\* A call of create_cards begins: lines 76-77.
Start ==
    /\ pc = "idle"
    /\ Len(results) < MaxRuns
    /\ current_card_names' = NoNames
    /\ requests' = <<>>
    /\ i' = 0
    /\ remoteAtStart' = remote
    /\ prevCreated' = Created(requests)
    /\ prevI' = i
    /\ pc' = IF ListIdsOf(cards) = {} THEN "post" ELSE "get"
    /\ UNCHANGED <<remote, cards, results>>
    /\ UNCHANGED evalVars
    /\ UNCHANGED mainVars

\* One iteration of the loop of line 77: lines 78-83.
ReadList ==
    /\ pc = "get"
    /\ \E list_id \in Unread(cards, current_card_names) :
       \E response \in Responses :
          /\ requests' = Append(requests, GetRequest(list_id, response))
          /\ IF response = None
             THEN /\ pc' = "idle"
                  /\ results' = Append(results, RequestsTimeout)
                  /\ UNCHANGED current_card_names
             ELSE IF GetFailed(Value(response))
             THEN /\ pc' = "idle"
                  /\ results' = Append(results,
                        RuntimeError("Couldn't get card lista for", Some(list_id), None))
                  /\ UNCHANGED current_card_names
             ELSE /\ current_card_names' =
                        [l \in DOMAIN current_card_names \cup {list_id} |->
                            IF l = list_id THEN remote[list_id] ELSE current_card_names[l]]
                  /\ pc' = IF ListIdsOf(cards) \subseteq DOMAIN current_card_names'
                           THEN "post" ELSE "get"
                  /\ UNCHANGED results
    /\ UNCHANGED <<remote, cards, i, remoteAtStart, prevCreated, prevI>>
    /\ UNCHANGED evalVars
    /\ UNCHANGED mainVars

\* One iteration of the loop of line 86 that takes the `continue` of line 88.
SkipCard ==
    /\ pc = "post"
    /\ i < Len(cards)
    /\ AlreadyExists(cards[i + 1], current_card_names)
    /\ i' = i + 1
    /\ UNCHANGED <<remote, cards, pc, current_card_names, requests, results, remoteAtStart,
                   prevCreated, prevI>>
    /\ UNCHANGED evalVars
    /\ UNCHANGED mainVars

\* One iteration of the loop of line 86 that issues the request: lines 89-99.
\* A request that timed out may or may not have reached the tracker.
CreateCard ==
    /\ pc = "post"
    /\ i < Len(cards)
    /\ ~AlreadyExists(cards[i + 1], current_card_names)
    /\ \E response \in Responses, offset \in UtcOffsets :
         LET card == cards[i + 1]
             query == Query(card, offset)
         IN /\ requests' = Append(requests, PostRequest(query, response))
            /\ IF response = None
               THEN /\ pc' = "idle"
                    /\ results' = Append(results, RequestsTimeout)
                    /\ remote' \in {remote, WithCard(remote, query.idList, query.name)}
                    /\ UNCHANGED i
               ELSE IF PostFailed(Value(response))
               THEN /\ pc' = "idle"
                    /\ results' = Append(results,
                          RuntimeError("Couldn't create card", None, Some(card)))
                    /\ UNCHANGED <<remote, i>>
               ELSE /\ remote' = WithCard(remote, query.idList, query.name)
                    /\ i' = i + 1
                    /\ UNCHANGED <<pc, results>>
    /\ UNCHANGED <<cards, current_card_names, remoteAtStart, prevCreated, prevI>>
    /\ UNCHANGED evalVars
    /\ UNCHANGED mainVars

\* The loop of line 86 is over: create_cards returns.
Return ==
    /\ pc = "post"
    /\ i = Len(cards)
    /\ pc' = "idle"
    /\ results' = Append(results, Returned)
    /\ UNCHANGED <<remote, cards, current_card_names, i, requests, remoteAtStart,
                   prevCreated, prevI>>
    /\ UNCHANGED evalVars
    /\ UNCHANGED mainVars

\* main is not running: create_cards or get_cards is called on its own.
MainOff ==
    /\ records = <<>>
    /\ mainPc = "off"
    /\ mainError = "none"

EvalIdle ==
    /\ rules = <<>>
    /\ evaluation_date = Date(2024, 1, 1)
    /\ due_time = None
    /\ evalCards = <<>>
    /\ evalDone = FALSE

Init ==
    /\ remote \in [ListIds -> [Names -> 0..MaxInitialCopies]]
    /\ cards \in SeqsUpTo(CardValues, MaxCards)
    /\ pc = "idle"
    /\ current_card_names = NoNames
    /\ i = 0
    /\ requests = <<>>
    /\ results = <<>>
    /\ remoteAtStart = remote
    /\ prevCreated = {}
    /\ prevI = 0
    /\ EvalIdle
    /\ MainOff

Next == Start \/ ReadList \/ SkipCard \/ CreateCard \/ Return

Spec == Init /\ [][Next]_vars

----------------------------------------------------------------------------
(* The rule engine: get_cards *)

Rule(card_name, list_id, year, month, day, weekday, due_in) ==
    [card_name |-> card_name, list_id |-> list_id, year |-> year, month |-> month,
     day |-> day, weekday |-> weekday, due_in |-> due_in]

\* Lines 49-50 left out: the rule's day is not looked at.
MatchesWithoutDay(rule, date) ==
    /\ ~(rule.year # None /\ Value(rule.year) # date.year)
    /\ ~(rule.month # None /\ Value(rule.month) # date.month)
    /\ ~(rule.weekday # None /\ Value(rule.weekday) # Weekday(date))

\* Lines 45-52: none of the four `continue` statements is taken.
Matches(rule, date) ==
    /\ ~(rule.year # None /\ Value(rule.year) # date.year)
    /\ ~(rule.month # None /\ Value(rule.month) # date.month)
    /\ ~(rule.day # None /\ Value(rule.day) # date.day)
    /\ ~(rule.weekday # None /\ Value(rule.weekday) # Weekday(date))

\* Line 56 as `if not rule.due_in`: a due_in of 0 counts as unset.
CardDueTruthy(rule, date, time) ==
    IF rule.due_in = None \/ rule.due_in = Some(0)
    THEN None
    ELSE Some(Combine(AddDays(date, Value(rule.due_in)), time))

\* Lines 54-60: card_due.
CardDue(rule, date, time) ==
    IF rule.due_in = None
    THEN None
    ELSE Some(Combine(AddDays(date, Value(rule.due_in)), time))

\* Line 62 guarded by a look-up: a rule whose name and list already gave a
\* card gives none.
RECURSIVE get_cardsDeduplicated(_, _, _)
get_cardsDeduplicated(rs, date, time) ==
    IF rs = <<>> THEN <<>>
    ELSE LET rule == rs[Len(rs)]
             front == get_cardsDeduplicated(SubSeq(rs, 1, Len(rs) - 1), date, time)
             seen == \E j \in DOMAIN front :
                        front[j].name = rule.card_name /\ front[j].list_id = rule.list_id
         IN IF Matches(rule, date) /\ ~seen
            THEN Append(front, Card(rule.card_name, rule.list_id, CardDue(rule, date, time)))
            ELSE front

\* Lines 43-64: the loop over the rules, appending one card per matching rule.
RECURSIVE get_cards(_, _, _)
get_cards(rs, date, time) ==
    IF rs = <<>> THEN <<>>
    ELSE LET rule == Head(rs)
             rest == get_cards(Tail(rs), date, time)
         IN IF Matches(rule, date)
            THEN <<Card(rule.card_name, rule.list_id, CardDue(rule, date, time))>> \o rest
            ELSE rest

\* The inputs get_cards is applied to.
RuleTargets == {<<"X", "L1">>, <<"L1", "L2">>}
RuleYears == {None, Some(2024)}
RuleMonths == {None, Some(2)}
RuleDays == {None, Some(29)}
RuleWeekdays == {None, Some(0), Some(3)}
RuleDueIns == {None, Some(0), Some(2)}
RuleValues ==
    {Rule(t[1], t[2], y, m, d, w, n) :
        t \in RuleTargets, y \in RuleYears, m \in RuleMonths, d \in RuleDays,
        w \in RuleWeekdays, n \in RuleDueIns}
EvalDates ==
    {Date(2023, 2, 28), Date(2023, 6, 29), Date(2023, 12, 29), Date(2024, 1, 29),
     Date(2024, 2, 1), Date(2024, 2, 26), Date(2024, 2, 28), Date(2024, 2, 29),
     Date(2024, 12, 30), Date(2024, 12, 31)}
DueTimeArgs == {None, Some(Time(17, 30, 0))}

SyncIdle ==
    /\ remote = [l \in ListIds |-> [n \in Names |-> 0]]
    /\ cards = <<>>
    /\ pc = "idle"
    /\ current_card_names = NoNames
    /\ i = 0
    /\ requests = <<>>
    /\ results = <<>>
    /\ remoteAtStart = remote
    /\ prevCreated = {}
    /\ prevI = 0

InitEval ==
    /\ rules \in SeqsUpTo(RuleValues, MaxRules)
    /\ evaluation_date \in EvalDates
    /\ due_time \in DueTimeArgs
    /\ evalCards = <<>>
    /\ evalDone = FALSE
    /\ SyncIdle
    /\ MainOff

\* A call get_cards(rules, evaluation_date), with or without due_time = ...
GetCards ==
    /\ ~evalDone
    /\ evalCards' = get_cards(rules, evaluation_date, DueTimeOf(due_time))
    /\ evalDone' = TRUE
    /\ UNCHANGED <<rules, evaluation_date, due_time>>
    /\ UNCHANGED syncVars
    /\ UNCHANGED mainVars

NextEval == GetCards

SpecEval == InitEval /\ [][NextEval]_vars

----------------------------------------------------------------------------
(* main: load the rules, evaluate them for today, synchronize *)

\* What json.load gives for a value of a record: null, a number or a string.
JNull == [type |-> "null", int |-> 0, str |-> ""]
JInt(n) == [type |-> "int", int |-> n, str |-> ""]
JStr(t) == [type |-> "str", int |-> 0, str |-> t]

\* Lines 20-26: the fields of Rule, none of which has a default.
OptionalFields == {"year", "month", "day", "weekday", "due_in"}
RuleFields == {"card_name", "list_id"} \cup OptionalFields

\* Line 125, Rule(**rule): the dataclass's __init__ wants every field as a
\* keyword and checks no type; a missing keyword raises TypeError.
LoadFails(record) == DOMAIN record # RuleFields

\* A loaded field as get_cards sees it. A string in a calendar field is
\* `!=` to every component of a date: it is modelled as a number no date has.
FieldOf(v) ==
    IF v.type = "null" THEN None
    ELSE IF v.type = "int" THEN Some(v.int)
    ELSE Some(-1)

\* The Rule object line 125 builds from a record with all the keys.
LoadedRule(record) ==
    Rule(record["card_name"].str, record["list_id"].str, FieldOf(record["year"]),
         FieldOf(record["month"]), FieldOf(record["day"]), FieldOf(record["weekday"]),
         FieldOf(record["due_in"]))

\* Line 58: timedelta(days = rule.due_in) raises TypeError for a string.
DueInFails(record, rule, date) ==
    Matches(rule, date) /\ record["due_in"].type = "str"

\* The records of the rules file.
FullRecords ==
    {[f \in RuleFields |->
        CASE f = "card_name" -> JStr(name)
          [] f = "list_id" -> JStr("L1")
          [] f = "year" -> year
          [] f = "due_in" -> due_in
          [] OTHER -> JNull] :
        name \in {"X", ""},
        year \in {JNull, JInt(2024), JStr("2024")},
        due_in \in {JNull, JInt(0), JStr("1")}}
Omissions ==
    {{}, {"year"}, {"month"}, {"day"}, {"weekday"}, {"due_in"}, OptionalFields}
RecordValues ==
    {[f \in RuleFields \ omitted |-> record[f]] :
        record \in FullRecords, omitted \in Omissions}

\* date.today() of line 131.
Todays == {Date(2024, 2, 29), Date(2023, 12, 29)}

NoCards == [l \in ListIds |-> [n \in Names |-> 0]]
MainRemotes == {NoCards, WithCard(NoCards, "L1", "X")}

InitMain ==
    /\ records \in SeqsUpTo(RecordValues, MaxRules)
    /\ mainPc = "load"
    /\ mainError = "none"
    /\ remote \in MainRemotes
    /\ remoteAtStart = remote
    /\ cards = <<>>
    /\ pc = "idle"
    /\ current_card_names = NoNames
    /\ i = 0
    /\ requests = <<>>
    /\ results = <<>>
    /\ prevCreated = {}
    /\ prevI = 0
    /\ rules = <<>>
    /\ evaluation_date \in Todays
    /\ due_time = None
    /\ evalCards = <<>>
    /\ evalDone = FALSE

\* Lines 124-125: rules = [Rule(**rule) for rule in json.load(rules_file)].
LoadRules ==
    /\ mainPc = "load"
    /\ IF \E k \in DOMAIN records : LoadFails(records[k])
       THEN /\ mainPc' = "failed"
            /\ mainError' = "TypeError"
            /\ UNCHANGED rules
       ELSE /\ rules' = [k \in DOMAIN records |-> LoadedRule(records[k])]
            /\ mainPc' = "evaluate"
            /\ UNCHANGED mainError
    /\ UNCHANGED <<records, evaluation_date, due_time, evalCards, evalDone>>
    /\ UNCHANGED syncVars

\* Line 131: cards = get_cards(rules, date.today()).
Evaluate ==
    /\ mainPc = "evaluate"
    /\ IF \E k \in DOMAIN rules : DueInFails(records[k], rules[k], evaluation_date)
       THEN /\ mainPc' = "failed"
            /\ mainError' = "TypeError"
            /\ UNCHANGED <<evalCards, evalDone, cards>>
       ELSE /\ evalCards' = get_cards(rules, evaluation_date, DueTimeOf(due_time))
            /\ evalDone' = TRUE
            /\ cards' = evalCards'
            /\ mainPc' = "sync"
            /\ UNCHANGED mainError
    /\ UNCHANGED <<records, rules, evaluation_date, due_time>>
    /\ UNCHANGED <<remote, pc, current_card_names, i, requests, results, remoteAtStart,
                   prevCreated, prevI>>

\* Line 132: the one call create_cards(cards, api_key, token).
Synchronize ==
    /\ mainPc = "sync"
    /\ ~(pc = "idle" /\ results # <<>>)
    /\ Next

NextMain == LoadRules \/ Evaluate \/ Synchronize

SpecMain == InitMain /\ [][NextMain]_vars

----------------------------------------------------------------------------
(* What the claims about the sync engine speak of *)

\* The number of runs of create_cards begun so far; `requests`, `remoteAtStart`
\* and `current_card_names` are those of run number `started`.
started == Len(results) + (IF pc = "idle" THEN 0 ELSE 1)


\* The request got a response whose status is not the success status.
NonSuccess(req) == req.response # None /\ req.response # Some(200)

\* The creation requests of `log` for card `name` in `list_id`.
PostsFor(log, list_id, name) ==
    {k \in Posts(log) : log[k].list_id = list_id /\ log[k].name = Some(name)}

\* The latest run is over and create_cards returned.
LastRunReturned ==
    pc = "idle" /\ started >= 1 /\ results[Len(results)].raised = "none"

\* The latest run is over and create_cards raised RuntimeError.
LastRunRaised ==
    pc = "idle" /\ started >= 1 /\ results[Len(results)].raised = "RuntimeError"

\* C1: a run that follows a run which completed without failure issues no
\* creation request and leaves the remote state as the first run left it.
C1_Idempotent ==
    (started >= 2 /\ results[started - 1].raised = "none")
        => (Posts(requests) = {} /\ remote = remoteAtStart)

\* C2: no creation request is issued for a candidate whose name is among the
\* names fetched for its destination; a run with a single candidate whose name
\* already exists in its destination issues one read and no creation request.
C2_ExistingSkipped ==
    /\ \A k \in Posts(requests) :
          current_card_names[requests[k].list_id][Value(requests[k].name)] = 0
    /\ (/\ LastRunReturned
        /\ Len(cards) = 1
        /\ remoteAtStart[cards[1].list_id][cards[1].name] > 0)
          => (Cardinality(Gets(requests)) = 1 /\ Posts(requests) = {})

\* C3: within one run at most one creation request is issued for every
\* (destination, name) pair.
C3_AtMostOnce ==
    \A j, k \in Posts(requests) :
        (requests[j].list_id = requests[k].list_id /\ requests[j].name = requests[k].name)
            => j = k

\* C4: in a run that returned, every candidate whose name is not among the
\* cards of its destination got a creation request, whatever the names in
\* other destinations and whatever the destination identifiers are.
C4_ScopedPerDestination ==
    LastRunReturned =>
        \A k \in 1..Len(cards) :
            current_card_names[cards[k].list_id][cards[k].name] = 0
                => PostsFor(requests, cards[k].list_id, cards[k].name) # {}

\* C5: a read request answered with a non-success status is the last request
\* of its run: the run raised, issued no creation request and left the remote
\* state unchanged.
C5_ReadFailureAborts ==
    \A k \in Gets(requests) :
        NonSuccess(requests[k])
            => /\ LastRunRaised
               /\ k = Len(requests)
               /\ Posts(requests) = {}
               /\ remote = remoteAtStart

\* C5 witness: the second read of a run failed after the first succeeded.
C5_Witness ==
    /\ Len(requests) = 2
    /\ requests[1].method = "GET" /\ requests[1].response = Some(200)
    /\ requests[2].method = "GET" /\ NonSuccess(requests[2])
    /\ \E k \in 1..Len(cards) : ~AlreadyExists(cards[k], current_card_names)

\* C6: a creation request answered with a non-success status is the last
\* request of its run: the run raised, and the remote state holds every card
\* the run created before (the state at the start plus one card per
\* successful creation request).
C6_CreateFailureAborts ==
    \A k \in Posts(requests) :
        NonSuccess(requests[k])
            => /\ LastRunRaised
               /\ k = Len(requests)
               /\ \A l \in ListIds, n \in Names :
                    remote[l][n] = remoteAtStart[l][n]
                        + Cardinality({j \in PostsFor(requests, l, n) :
                                          requests[j].response = Some(200)})

\* C6 witness: a creation request failed after another one of the same run
\* had succeeded, with a candidate still to come.
C6_Witness ==
    /\ \E j, k \in Posts(requests) :
          j < k /\ requests[j].response = Some(200) /\ NonSuccess(requests[k])
    /\ remote # remoteAtStart

\* C7: the run that follows a run aborted by a failed creation request issues
\* no creation request for a card the aborted run created, and issues creation
\* requests only for candidates the aborted run had not gone through.
C7_SafeRerun ==
    (/\ started >= 2
     /\ results[started - 1].raised = "RuntimeError"
     /\ prevCreated # {})
        => /\ \A c \in prevCreated : PostsFor(requests, c[1], c[2]) = {}
           /\ \A j \in Posts(requests) :
                \E k \in (prevI + 1)..Len(cards) :
                    /\ cards[k].list_id = requests[j].list_id
                    /\ Some(cards[k].name) = requests[j].name

----------------------------------------------------------------------------
(* What the claims about the rule engine speak of *)

\* The weekdays of the evaluation dates, read off a calendar (0 = Monday).
CalendarWeekday(d) ==
    CASE d = Date(2023, 2, 28) -> 1
      [] d = Date(2023, 6, 29) -> 3
      [] d = Date(2023, 12, 29) -> 4
      [] d = Date(2024, 1, 29) -> 0
      [] d = Date(2024, 2, 1) -> 3
      [] d = Date(2024, 2, 26) -> 0
      [] d = Date(2024, 2, 28) -> 2
      [] d = Date(2024, 2, 29) -> 3
      [] d = Date(2024, 12, 30) -> 0
      [] d = Date(2024, 12, 31) -> 1

\* The day after d, by the calendar's rules.
NextDay(d) ==
    IF d.day < DaysInMonth(d.year, d.month) THEN Date(d.year, d.month, d.day + 1)
    ELSE IF d.month < 12 THEN Date(d.year, d.month + 1, 1)
    ELSE Date(d.year + 1, 1, 1)

RECURSIVE DaysLater(_, _)
DaysLater(d, n) == IF n = 0 THEN d ELSE DaysLater(NextDay(d), n - 1)

\* Every set field among year, month, day, weekday equals the date's component.
AllSetFieldsEqual(rule, d) ==
    /\ rule.year \subseteq {d.year}
    /\ rule.month \subseteq {d.month}
    /\ rule.day \subseteq {d.day}
    /\ rule.weekday \subseteq {CalendarWeekday(d)}

AllUnset(rule) ==
    rule.year = None /\ rule.month = None /\ rule.day = None /\ rule.weekday = None

RulesWhere(P(_)) == {k \in 1..Len(rules) : P(rules[k])}

\* C8: get_cards returns one candidate per rule whose set fields all equal
\* the evaluation date's components, and none for the other rules; a rule
\* with the four fields unset always produces one.
C8_MatchIffAllSetFieldsEqual ==
    evalDone =>
        LET Passes(rule) == AllSetFieldsEqual(rule, evaluation_date)
        IN /\ Len(evalCards) = Cardinality(RulesWhere(Passes))
           /\ (RulesWhere(AllUnset) = DOMAIN rules => Len(evalCards) = Len(rules))

\* C8 witness: of two rules with set fields, get_cards kept the one that matches
\* the date in all of them and dropped the one that fails in one field only.
C8_Witness ==
    /\ evalDone
    /\ Len(rules) = 2
    /\ Len(evalCards) = 1
    /\ rules[1].year # None /\ rules[1].month # None /\ rules[1].weekday # None
    /\ rules[1].day # None /\ Value(rules[1].day) # evaluation_date.day
    /\ rules[1].year = {evaluation_date.year} /\ rules[1].month = {evaluation_date.month}
    /\ rules[1].weekday = {CalendarWeekday(evaluation_date)}
    /\ rules[2].year # None /\ rules[2].month # None /\ rules[2].weekday # None
    /\ evalCards[1].name = rules[2].card_name

\* C9, as stated: when every rule has a set weekday, get_cards returns one
\* candidate per rule whose weekday is the date's weekday, whatever the rules'
\* year, month and day.
C9_WeekdayAlone ==
    LET HasWeekday(rule) == rule.weekday # None
        OnWeekday(rule) == rule.weekday = {CalendarWeekday(evaluation_date)}
    IN (evalDone /\ RulesWhere(HasWeekday) = DOMAIN rules)
          => Len(evalCards) = Cardinality(RulesWhere(OnWeekday))

\* C9, amended: when every rule has a set weekday and its year, month and day
\* unset, get_cards returns one candidate per rule whose weekday is the date's
\* weekday, whatever the date's year, month and day.
C9_WeekdayOnlyRules ==
    LET WeekdayOnly(rule) ==
            rule.weekday # None /\ rule.year = None /\ rule.month = None /\ rule.day = None
        OnWeekday(rule) == rule.weekday = {CalendarWeekday(evaluation_date)}
    IN (evalDone /\ RulesWhere(WeekdayOnly) = DOMAIN rules)
          => Len(evalCards) = Cardinality(RulesWhere(OnWeekday))

\* C9 witness: of two weekday-only rules, one for the date's weekday and one
\* for another weekday, get_cards kept the first alone.
C9_Witness ==
    /\ evalDone
    /\ Len(rules) = 2
    /\ \A k \in 1..2 : rules[k].weekday # None /\ rules[k].year = None
                       /\ rules[k].month = None /\ rules[k].day = None
    /\ rules[1].weekday = {CalendarWeekday(evaluation_date)}
    /\ rules[2].weekday # rules[1].weekday
    /\ Len(evalCards) = 1
    /\ evalCards[1].name = rules[1].card_name

\* C10: the candidates are those of the matching rules, each without a due
\* timestamp when the rule's due_in is unset and otherwise due due_in days
\* after the evaluation date at the due time passed to get_cards, 09:00 when
\* none is passed.
C10_Due ==
    evalDone =>
        LET matching == {k \in 1..Len(rules) : AllSetFieldsEqual(rules[k], evaluation_date)}
            at == IF due_time = None THEN Time(9, 0, 0) ELSE Value(due_time)
            Expected(rule) ==
                Card(rule.card_name, rule.list_id,
                     IF rule.due_in = None THEN None
                     ELSE Some(Combine(DaysLater(evaluation_date, Value(rule.due_in)), at)))
        IN /\ \A k \in matching : \E j \in DOMAIN evalCards : evalCards[j] = Expected(rules[k])
           /\ \A j \in DOMAIN evalCards : \E k \in matching : evalCards[j] = Expected(rules[k])

\* C10 witness: a candidate without a due timestamp, and one due two days
\* after the evaluation date, in the next month, at the default due time.
C10_Witness ==
    /\ evalDone
    /\ Len(evalCards) = 2
    /\ rules[1].due_in = None
    /\ evalCards[1].due = None
    /\ rules[2].due_in = Some(2)
    /\ evalCards[2].due # None
    /\ Value(evalCards[2].due).month # evaluation_date.month
    /\ due_time = None
    /\ Value(evalCards[2].due).hour = 9

\* C11: the candidates are the matching rules' names and destinations, one
\* per matching rule, in the order of the rules, with no deduplication.
C11_OrderedSubsequence ==
    evalDone =>
        LET matching == {k \in 1..Len(rules) : AllSetFieldsEqual(rules[k], evaluation_date)}
            \* the j-th matching rule
            Nth(j) == CHOOSE k \in matching : Cardinality({m \in matching : m <= k}) = j
        IN /\ Len(evalCards) = Cardinality(matching)
           /\ \A j \in DOMAIN evalCards :
                /\ evalCards[j].name = rules[Nth(j)].card_name
                /\ evalCards[j].list_id = rules[Nth(j)].list_id

\* C11 witness: two matching rules of one name and destination, differing in
\* due_in, gave two candidates in the rules' order.
C11_Witness ==
    /\ evalDone
    /\ Len(rules) = 2
    /\ rules[1].card_name = rules[2].card_name
    /\ rules[1].list_id = rules[2].list_id
    /\ rules[1].due_in = Some(2) /\ rules[2].due_in = None
    /\ Len(evalCards) = 2
    /\ evalCards[1].due # None /\ evalCards[2].due = None

\* C12: no run reads a destination twice or issues more creation requests
\* for a name and destination than it has candidates for them; a run that
\* returned issued exactly one read per distinct destination of its
\* candidates and none for other destinations.
C12_OneReadPerDestination ==
    LET reads(l) == Cardinality({k \in Gets(requests) : requests[k].list_id = l})
        candidates(l, n) ==
            Cardinality({k \in 1..Len(cards) : cards[k].list_id = l /\ cards[k].name = n})
    IN /\ \A l \in ListIds : reads(l) <= 1
       /\ \A l \in ListIds, n \in Names :
            Cardinality(PostsFor(requests, l, n)) <= candidates(l, n)
       /\ LastRunReturned =>
            \A l \in ListIds : reads(l) = (IF l \in ListIdsOf(cards) THEN 1 ELSE 0)

\* C12 witness: a run with two candidates for one destination and one read
\* returned after two creation requests.
C12_Witness ==
    /\ LastRunReturned
    /\ Len(cards) = 2
    /\ cards[1].list_id = cards[2].list_id
    /\ cards[1].name # cards[2].name
    /\ Cardinality(Gets(requests)) = 1
    /\ Cardinality(Posts(requests)) = 2

\* C13: a request that timed out ends its run as a request answered with a
\* non-success status does: it is the run's last request and the run raised
\* the same kind of error, RuntimeError.
C13_TimeoutSameClass ==
    \A k \in DOMAIN requests :
        requests[k].response = None
            => /\ pc = "idle"
               /\ k = Len(requests)
               /\ results[Len(results)].raised = "RuntimeError"

\* C14: a run with a failed request, whether answered with a non-success
\* status or timed out, raised the one error type, which names the destination
\* of a failed read and the card name and destination of a failed creation.
C14_TypedErrorWithContext ==
    \A k \in DOMAIN requests :
        (NonSuccess(requests[k]) \/ requests[k].response = None)
            => /\ LastRunRaised
               /\ LET error == results[Len(results)]
                  IN IF requests[k].method = "GET"
                     THEN error.list_id = Some(requests[k].list_id)
                     ELSE /\ error.card # None
                          /\ Some(Value(error.card).name) = requests[k].name
                          /\ Value(error.card).list_id = requests[k].list_id

----------------------------------------------------------------------------
(* What the claims about main speak of *)

\* The record has a string where an integer or null belongs, or an empty name.
Malformed(record) ==
    \/ \E f \in DOMAIN record \cap OptionalFields : record[f].type = "str"
    \/ ("card_name" \in DOMAIN record /\ record["card_name"] = JStr(""))

\* The record with its omitted optional fields given as null.
WithNulls(record) ==
    [f \in RuleFields |-> IF f \in DOMAIN record THEN record[f] ELSE JNull]

\* C15: when the rules file holds a malformed record, main is stopped before
\* any network activity: it never issues a read or creation request, and so
\* never completes a synchronization.
C15_MalformedRejected ==
    (\E k \in DOMAIN records : Malformed(records[k]))
        => /\ requests = <<>>
           /\ ~LastRunReturned

\* C16: records that omit optional fields load without error, and the
\* candidates main gets from them are those of the same records with the
\* omitted fields given as null.
C16_OmittedIsNull ==
    (mainPc # "load" /\ \A k \in DOMAIN records : ~Malformed(records[k]))
        => /\ mainError = "none"
           /\ evalDone =>
                evalCards = get_cards([k \in DOMAIN records |-> LoadedRule(WithNulls(records[k]))],
                                      evaluation_date, DefaultDueTime)

----------------------------------------------------------------------------
(* More claims about the sync engine *)

\* The request carries the card's name and destination, and a due value
\* exactly when the card has a due timestamp.
Carries(req, card) ==
    /\ req.name = Some(card.name)
    /\ req.list_id = card.list_id
    /\ (req.due # None) <=> (card.due # None)

\* The requests ps are carried, in order, by cards picked in order from cs.
RECURSIVE InOrderOf(_, _)
InOrderOf(ps, cs) ==
    IF ps = <<>> THEN TRUE
    ELSE IF cs = <<>> THEN FALSE
    ELSE IF Carries(Head(ps), Head(cs)) THEN InOrderOf(Tail(ps), Tail(cs))
    ELSE InOrderOf(ps, Tail(cs))

IsPost(req) == req.method = "POST"

\* C17: the creation requests of a run are, in order, those of a subsequence
\* of the candidate list, each with its candidate's name and destination and
\* with a due value exactly when the candidate has a due timestamp.
C17_CreationOrder ==
    InOrderOf(SelectSeq(requests, IsPost), cards)

\* C17 witness: a run issued two creation requests, the first for a candidate
\* without due timestamp and the second, of another name, with one.
C17_Witness ==
    /\ Len(cards) = 2
    /\ cards[1].name # cards[2].name
    /\ cards[1].due = None /\ cards[2].due # None
    /\ Len(SelectSeq(requests, IsPost)) = 2
    /\ requests[Len(requests)].due # None
    /\ requests[Len(requests) - 1].due = None

\* C18: no step of create_cards removes or changes a card of the tracker, and
\* a step adds cards only to a destination of the candidate list.
C18_NoUpdateNoDelete ==
    [][\A l \in ListIds, n \in Names :
          /\ remote'[l][n] >= remote[l][n]
          /\ remote'[l][n] > remote[l][n] => l \in ListIdsOf(cards)]_vars

\* C18 witness: a run added a card to a destination that held another card
\* before, while a destination outside the candidate list holds cards.
C18_Witness ==
    /\ remote # remoteAtStart
    /\ \E l \in ListIdsOf(cards), n \in Names :
          remote[l][n] > remoteAtStart[l][n]
          /\ \E other \in Names \ {n} : remoteAtStart[l][other] > 0 /\ remote[l][other] > 0
    /\ \E l \in ListIds \ ListIdsOf(cards), n \in Names : remote[l][n] > 0

\* C19: when create_cards has returned, the tracker holds, for every
\* candidate, a card of its name in its destination.
C19_Complete ==
    LastRunReturned =>
        \A k \in 1..Len(cards) : remote[cards[k].list_id][cards[k].name] > 0

====
